---- MODULE Spec2Model ----
(***************************************************************************)
(* Model of the two figure scripts of surveying-the-deep:                  *)
(*   techniques.py  CSV of publications -> group-by-year sums -> stacked   *)
(*                  bar chart -> optional percentage statistics            *)
(*   heatmap.py     CSV of lat/longs -> points -> 2D histogram -> log ->   *)
(*                  Gaussian filter -> overlay on the world map -> save    *)
(* Each script is a straight-line program; pc is the position in main().   *)
(***************************************************************************)
EXTENDS Integers, Sequences, FiniteSets

VARIABLES script, pc, failed_at, saved, args, df,
          df_techs, figure, stats_df, percents,
          gdf, world, xy, heatmap, logheatmap, heat

vars == <<script, pc, failed_at, saved, args, df,
          df_techs, figure, stats_df, percents,
          gdf, world, xy, heatmap, logheatmap, heat>>

techVars == <<df_techs, figure, stats_df, percents>>
heatVars == <<gdf, world, xy, heatmap, logheatmap, heat>>

(* ---------------------------- bounds ----------------------------------- *)
MaxPubs == 2        \* rows of the techniques CSV
NumYears == 2       \* distinct publication years, starting at 2020
MaxRows == 3        \* rows of the lat/long CSV
CoordMax == 1       \* rounded coordinates are whole numbers 0..CoordMax
MaxBins == 2        \* largest bin count per axis

Years == 2020 .. (2020 + NumYears - 1)
\* a technique column holds a 0/1 indicator per publication
Indicators == 0 .. 1
Coords == 0 .. CoordMax

SeqsUpTo(S, n) == UNION {[1..k -> S] : k \in 0..n}

(* ----------------------- small numeric helpers ------------------------- *)
RECURSIVE SumOver(_, _)
\* sum of f[k] over the keys k of the finite set S
SumOver(f, S) ==
    IF S = {} THEN 0
    ELSE LET k == CHOOSE k \in S : TRUE IN f[k] + SumOver(f, S \ {k})

MinOf(s) == CHOOSE m \in {s[i] : i \in DOMAIN s} : \A i \in DOMAIN s : m <= s[i]
MaxOf(s) == CHOOSE m \in {s[i] : i \in DOMAIN s} : \A i \in DOMAIN s : m >= s[i]

(* A float is kept as an exact fraction num/den; den = 0 is NaN (0/0).     *)
NaN == [num |-> 0, den |-> 0]
IsNaN(q) == q.den = 0
TrueDivide(a, b) == IF b = 0 THEN NaN ELSE [num |-> a, den |-> b]
Times(q, k) == IF IsNaN(q) THEN NaN ELSE [num |-> q.num * k, den |-> q.den]
EqualsNumber(q, n) == ~IsNaN(q) /\ q.num = n * q.den

(* ======================= techniques.py ================================= *)
TechColumns == {"Image Processing", "Machine Learning", "Deep Learning"}

PubRows == [Year : Years,
            Image_Processing : Indicators,
            Machine_Learning : Indicators,
            Deep_Learning : Indicators]

\* lines 107-108: select the four columns and rename the technique columns
SelectRename(r) ==
    [Year |-> r.Year,
     cells |-> [c \in TechColumns |->
                  CASE c = "Image Processing" -> r.Image_Processing
                    [] c = "Machine Learning" -> r.Machine_Learning
                    [] c = "Deep Learning" -> r.Deep_Learning]]

RECURSIVE GroupBySum(_)
\* line 110: groupby('Year').sum(), one row folded into its group at a time
GroupBySum(rows) ==
    IF rows = <<>> THEN <<>>
    ELSE LET n == Len(rows)
             acc == GroupBySum(SubSeq(rows, 1, n - 1))
             r == rows[n]
         IN IF r.Year \in DOMAIN acc
            THEN [acc EXCEPT ![r.Year] =
                     [c \in TechColumns |-> acc[r.Year][c] + r.cells[c]]]
            ELSE [y \in DOMAIN acc \cup {r.Year} |->
                     IF y = r.Year THEN r.cells ELSE acc[y]]

\* variant: groupby('Year').first() keeps the first row of a year
format_df_First(d) ==
    LET years == {d[i].Year : i \in DOMAIN d}
        first(y) == CHOOSE i \in DOMAIN d :
                       d[i].Year = y /\ \A j \in DOMAIN d : d[j].Year = y => i <= j
    IN [y \in years |-> SelectRename(d[first(y)]).cells]

format_df(d) == GroupBySum([i \in DOMAIN d |-> SelectRename(d[i])])

\* df[col].sum()
ColumnSum(t, c) == SumOver([y \in DOMAIN t |-> t[y][c]], DOMAIN t)
\* variant: df.sum().max(), the largest column total
TotalSum_Max(t) ==
    LET sums == {ColumnSum(t, c) : c \in TechColumns}
    IN CHOOSE m \in sums : \A v \in sums : m >= v

\* df.sum().sum()
TotalSum(t) ==
    SumOver([c \in TechColumns |-> ColumnSum(t, c)], TechColumns)

\* variant: df[df.index > after_year_only]
YearFilter_Strict(t, y0) ==
    LET keep == {y \in DOMAIN t : y > y0} IN [y \in keep |-> t[y]]

\* line 154: df[df.index >= after_year_only]
YearFilter(t, y0) ==
    LET keep == {y \in DOMAIN t : y >= y0} IN [y \in keep |-> t[y]]

\* lines 153-154; after_year_only is <<>> for None and <<Y>> for Y
StatsFrame(t, after_year_only) ==
    IF after_year_only # <<>> THEN YearFilter(t, after_year_only[1]) ELSE t

\* variant: the column total per year of the table, not per grand total
Percent_PerYear(t, c) ==
    Times(TrueDivide(ColumnSum(t, c), Cardinality(DOMAIN t)), 100)

\* lines 157-159
Percent(t, c) == Times(TrueDivide(ColumnSum(t, c), TotalSum(t)), 100)

NoPercents == [c \in TechColumns |-> NaN]
NoFigure == [drawn |-> FALSE, data |-> <<>>, legend |-> FALSE]

\* line 125-129: DataFrame.plot(kind='bar', stacked=True, legend=show_legend)
DataFramePlot(t, show_legend) ==
    [drawn |-> TRUE, data |-> t, legend |-> show_legend]

\* lines 131-134: pyplot.legend(labels, title=...) puts a legend on the axes
PltLegend(fig) == [fig EXCEPT !.legend = TRUE]

DefaultArgs ==
    [after_year_only |-> <<>>, no_print_stats |-> FALSE,
     no_show_legend |-> FALSE, bins |-> <<100, 100>>]

TParseArgs ==
    /\ script = "techniques" /\ pc = "parse_args"
    /\ \E ay \in {<<>>} \cup {<<y>> : y \in Years \cup {2020 + NumYears}},
          nps \in BOOLEAN, nsl \in BOOLEAN :
          args' = [DefaultArgs EXCEPT !.after_year_only = ay,
                                      !.no_print_stats = nps,
                                      !.no_show_legend = nsl]
    /\ pc' = "read_csv"
    /\ UNCHANGED <<script, failed_at, saved, df, techVars, heatVars>>

TReadCsv ==
    /\ script = "techniques" /\ pc = "read_csv"
    /\ \E rows \in SeqsUpTo(PubRows, MaxPubs) : df' = rows
    /\ pc' = "format_df"
    /\ UNCHANGED <<script, failed_at, saved, args, techVars, heatVars>>

TFormatDf ==
    /\ script = "techniques" /\ pc = "format_df"
    /\ df_techs' = format_df(df)
    /\ pc' = "generate_stacked_barchart"
    /\ UNCHANGED <<script, failed_at, saved, args, df,
                   figure, stats_df, percents, heatVars>>

\* lines 123-142.  DataFrame.plot raises "no numeric data to plot" on a
\* table without rows.
TGenerateStackedBarchart ==
    /\ script = "techniques" /\ pc = "generate_stacked_barchart"
    /\ IF DOMAIN df_techs = {}
       THEN /\ pc' = "failed" /\ failed_at' = "plot"
            /\ UNCHANGED <<figure, saved>>
       ELSE /\ figure' = PltLegend(DataFramePlot(df_techs, ~args.no_show_legend))
            /\ saved' = TRUE
            /\ pc' = IF args.no_print_stats THEN "done" ELSE "print_stats"
            /\ UNCHANGED failed_at
    /\ UNCHANGED <<script, args, df, df_techs, stats_df, percents, heatVars>>

\* lines 144-163
TPrintStats ==
    /\ script = "techniques" /\ pc = "print_stats"
    /\ LET d == StatsFrame(df_techs, args.after_year_only)
       IN /\ stats_df' = d
          /\ percents' = [c \in TechColumns |-> Percent(d, c)]
    /\ pc' = "done"
    /\ UNCHANGED <<script, failed_at, saved, args, df, df_techs, figure, heatVars>>

(* ========================== heatmap.py ================================= *)
LatLongRows == [Latitude_rounded : Coords, Longitude_rounded : Coords]

\* line 170: Point(xy) for xy in zip(df.Longitude_rounded, df.Latitude_rounded)
pandas_to_geopandas(d) ==
    [i \in DOMAIN d |-> <<d[i].Longitude_rounded, d[i].Latitude_rounded>>]

\* line 203: total_bounds <<minx, miny, maxx, maxy>> of the map that is
\* loaded; the coordinate 0 lies outside the first one.
WorldBounds == {<<1, 1, CoordMax + 1, CoordMax + 1>>,
                <<0, 0, CoordMax + 1, CoordMax + 1>>}

\* variant: a fixed range, the extent <<1, CoordMax + 1>> of the map
OuterEdges_Fixed(a) == <<2, 2 * (CoordMax + 1)>>

\* numpy histogramdd, range not given: the outer edges are the minimum and
\* the maximum of the data (0 and 1 for no data), widened by 0.5 on each
\* side when they coincide.  Kept in half units: <<2 * first, 2 * last>>.
OuterEdges(a) ==
    IF a = <<>> THEN <<0, 2>>
    ELSE LET lo == MinOf(a)
             hi == MaxOf(a)
         IN IF lo = hi THEN <<2 * lo - 1, 2 * hi + 1>> ELSE <<2 * lo, 2 * hi>>

\* linspace(first_edge, last_edge, n + 1), every edge multiplied by 2 * n
Linspace(e, n) == [i \in 1..(n + 1) |-> n * e[1] + (i - 1) * (e[2] - e[1])]

\* a sample in the unit of Linspace
Scaled(v, n) == 2 * n * v

\* searchsorted(edges, v, side='right')
SearchSortedRight(edges, v) == Cardinality({i \in DOMAIN edges : edges[i] <= v})

\* variant: a sample on the last edge stays in the upper outlier bin
BinIndex_NoOnEdge(edges, v) == SearchSortedRight(edges, v)

\* bin number of a sample: 0 and n + 1 are the outlier bins; a sample on the
\* last edge is moved into the last bin.
BinIndex(edges, v) ==
    LET k == SearchSortedRight(edges, v)
    IN IF v = edges[Len(edges)] THEN k - 1 ELSE k

RECURSIVE Bincount(_, _)
\* bincount of the samples' cells, over the grid with the outlier bins
Bincount(cells, grid) ==
    IF cells = <<>> THEN [c \in grid |-> 0]
    ELSE LET n == Len(cells)
             acc == Bincount(SubSeq(cells, 1, n - 1), grid)
         IN [acc EXCEPT ![cells[n]] = @ + 1]

\* line 186: np.histogram2d(y, x, bins) -> counts[row of y][column of x]
histogram2d(ys, xs, bins) ==
    LET ny == bins[1]
        nx == bins[2]
        yedges == Linspace(OuterEdges(ys), ny)
        xedges == Linspace(OuterEdges(xs), nx)
        cells == [i \in DOMAIN ys |->
                    <<BinIndex(yedges, Scaled(ys[i], ny)),
                      BinIndex(xedges, Scaled(xs[i], nx))>>]
        hist == Bincount(cells, (0..(ny + 1)) \X (0..(nx + 1)))
    IN [c \in (1..ny) \X (1..nx) |-> hist[c]]

(* A log value is kept in thousandths, rounded down; -inf is its own kind. *)
NegInf == [kind |-> "neginf", milli |-> 0]
Finite(m) == [kind |-> "finite", milli |-> m]

RECURSIVE LnMilli(_)
LnMilli(n) ==
    CASE n = 1 -> 0
      [] n = 2 -> 693
      [] n = 3 -> 1098
      [] n = 4 -> 1386
      [] n = 5 -> 1609
      [] n = 6 -> 1791
      [] n = 7 -> 1945
      [] n >= 8 -> 2079 + LnMilli(n \div 8)

\* variant: np.log1p
np_log_log1p(n) == Finite(LnMilli(n + 1))

\* line 188: np.log of one cell
np_log(n) == IF n = 0 THEN NegInf ELSE Finite(LnMilli(n))
isneginf(v) == v.kind = "neginf"

\* line 188
LogGrid(h) == [c \in DOMAIN h |-> np_log(h[c])]
\* variant: the replacement left out
ReplaceNegInf_Skip(g) == g

\* line 189: logheatmap[np.isneginf(logheatmap)] = 0
ReplaceNegInf(g) == [c \in DOMAIN g |-> IF isneginf(g[c]) THEN Finite(0) ELSE g[c]]
\* line 190: the smoothed grid, kept as the filter applied to its input
gaussian_filter(g) == [op |-> "gaussian_filter", input |-> g]

HParseArgs ==
    /\ script = "heatmap" /\ pc = "parse_args"
    /\ \E by \in 0..MaxBins, bx \in 0..MaxBins :
          args' = [DefaultArgs EXCEPT !.bins = <<by, bx>>]
    /\ pc' = "read_csv"
    /\ UNCHANGED <<script, failed_at, saved, df, techVars, heatVars>>

HReadCsv ==
    /\ script = "heatmap" /\ pc = "read_csv"
    /\ \E rows \in SeqsUpTo(LatLongRows, MaxRows) : df' = rows
    /\ pc' = "pandas_to_geopandas"
    /\ UNCHANGED <<script, failed_at, saved, args, techVars, heatVars>>

HPandasToGeopandas ==
    /\ script = "heatmap" /\ pc = "pandas_to_geopandas"
    /\ gdf' = pandas_to_geopandas(df)
    /\ pc' = "get_world_map"
    /\ UNCHANGED <<script, failed_at, saved, args, df, techVars,
                   world, xy, heatmap, logheatmap, heat>>

HGetWorldMap ==
    /\ script = "heatmap" /\ pc = "get_world_map"
    /\ \E w \in WorldBounds : world' = w
    /\ pc' = "coords"
    /\ UNCHANGED <<script, failed_at, saved, args, df, techVars,
                   gdf, xy, heatmap, logheatmap, heat>>

\* variant: the unpacking accepts an empty table
HCoords_NoUnpackError ==
    /\ script = "heatmap" /\ pc = "coords"
    /\ xy' = [x |-> [i \in DOMAIN gdf |-> gdf[i][1]],
              y |-> [i \in DOMAIN gdf |-> gdf[i][2]]]
    /\ pc' = "histogram2d"
    /\ UNCHANGED <<script, failed_at, saved, args, df, techVars,
                   gdf, world, heatmap, logheatmap, heat>>

\* lines 184-185: x, y = zip(*coords) cannot unpack when there is no point
HCoords ==
    /\ script = "heatmap" /\ pc = "coords"
    /\ IF gdf = <<>>
       THEN /\ pc' = "failed" /\ failed_at' = "unpack"
            /\ UNCHANGED xy
       ELSE /\ xy' = [x |-> [i \in DOMAIN gdf |-> gdf[i][1]],
                      y |-> [i \in DOMAIN gdf |-> gdf[i][2]]]
            /\ pc' = "histogram2d"
            /\ UNCHANGED failed_at
    /\ UNCHANGED <<script, saved, args, df, techVars,
                   gdf, world, heatmap, logheatmap, heat>>

\* line 186: a bin count below 1 is rejected by histogram2d
HHistogram2d ==
    /\ script = "heatmap" /\ pc = "histogram2d"
    /\ IF args.bins[1] < 1 \/ args.bins[2] < 1
       THEN /\ pc' = "failed" /\ failed_at' = "histogram2d"
            /\ UNCHANGED heatmap
       ELSE /\ heatmap' = histogram2d(xy.y, xy.x, args.bins)
            /\ pc' = "log"
            /\ UNCHANGED failed_at
    /\ UNCHANGED <<script, saved, args, df, techVars,
                   gdf, world, xy, logheatmap, heat>>

HLog ==
    /\ script = "heatmap" /\ pc = "log"
    /\ logheatmap' = LogGrid(heatmap)
    /\ pc' = "isneginf"
    /\ UNCHANGED <<script, failed_at, saved, args, df, techVars,
                   gdf, world, xy, heatmap, heat>>

HReplaceNegInf ==
    /\ script = "heatmap" /\ pc = "isneginf"
    /\ logheatmap' = ReplaceNegInf(logheatmap)
    /\ pc' = "gaussian_filter"
    /\ UNCHANGED <<script, failed_at, saved, args, df, techVars,
                   gdf, world, xy, heatmap, heat>>

HGaussianFilter ==
    /\ script = "heatmap" /\ pc = "gaussian_filter"
    /\ heat' = gaussian_filter(logheatmap)
    /\ pc' = "overlay_heat_on_map"
    /\ UNCHANGED <<script, failed_at, saved, args, df, techVars,
                   gdf, world, xy, heatmap, logheatmap>>

\* lines 203-233: imshow stretches the grid over the map's extent
HOverlayHeatOnMap ==
    /\ script = "heatmap" /\ pc = "overlay_heat_on_map"
    /\ figure' = [drawn |-> TRUE, data |-> heat, legend |-> FALSE,
                  extent |-> <<world[1], world[3], world[4], world[2]>>]
    /\ saved' = TRUE
    /\ pc' = "done"
    /\ UNCHANGED <<script, failed_at, args, df, df_techs, stats_df, percents,
                   heatVars>>

(* ============================ whole program ============================ *)
InitVars ==
    /\ pc = "parse_args"
    /\ failed_at = "none"
    /\ saved = FALSE
    /\ args = DefaultArgs
    /\ df = <<>>
    /\ df_techs = <<>>
    /\ figure = NoFigure
    /\ stats_df = <<>>
    /\ percents = NoPercents
    /\ gdf = <<>>
    /\ world = <<>>
    /\ xy = <<>>
    /\ heatmap = <<>>
    /\ logheatmap = <<>>
    /\ heat = <<>>

InitTechniques == script = "techniques" /\ InitVars
InitHeatmap == script = "heatmap" /\ InitVars

NextTechniques ==
    \/ TParseArgs
    \/ TReadCsv
    \/ TFormatDf
    \/ TGenerateStackedBarchart
    \/ TPrintStats

NextHeatmap ==
    \/ HParseArgs
    \/ HReadCsv
    \/ HPandasToGeopandas
    \/ HGetWorldMap
    \/ HCoords
    \/ HHistogram2d
    \/ HLog
    \/ HReplaceNegInf
    \/ HGaussianFilter
    \/ HOverlayHeatOnMap

SpecTechniques == InitTechniques /\ [][NextTechniques]_vars
SpecHeatmap == InitHeatmap /\ [][NextHeatmap]_vars

(* ============================== claims ================================= *)
StatsPrinted == script = "techniques" /\ pc = "done" /\ ~args.no_print_stats
Aggregated == script = "techniques" /\ pc \in {"generate_stacked_barchart",
                                               "print_stats", "done", "failed"}
\* the raw histogram as line 186 returns it
HistogramBuilt == script = "heatmap" /\ pc = "log"
\* the grid as line 190 receives it
AtFilter == script = "heatmap" /\ pc = "gaussian_filter"

RawYears == {df[i].Year : i \in DOMAIN df}
RawCell(r, c) ==
    CASE c = "Image Processing" -> r.Image_Processing
      [] c = "Machine Learning" -> r.Machine_Learning
      [] c = "Deep Learning" -> r.Deep_Learning
\* sum of raw column c over the input rows whose year is in yrs
RawTotal(c, yrs) ==
    LET idx == {i \in DOMAIN df : df[i].Year \in yrs}
    IN SumOver([i \in idx |-> RawCell(df[i], c)], idx)
RawGrandTotal(yrs) ==
    RawTotal("Image Processing", yrs) + RawTotal("Machine Learning", yrs)
      + RawTotal("Deep Learning", yrs)
IncludedYears ==
    IF args.after_year_only = <<>> THEN RawYears
    ELSE {y \in RawYears : ~(y < args.after_year_only[1])}

\* a/b + c/d + e/f = 100 over exact fractions
SumsTo100(p) ==
    LET a == p["Image Processing"]
        b == p["Machine Learning"]
        c == p["Deep Learning"]
    IN /\ ~IsNaN(a) /\ ~IsNaN(b) /\ ~IsNaN(c)
       /\ a.num * b.den * c.den + b.num * a.den * c.den + c.num * a.den * b.den
            = 100 * a.den * b.den * c.den

SumCells(h) == SumOver(h, DOMAIN h)
\* bin k of n covers [edge k, edge k+1), the last bin also its upper edge
InBin(edges, k, v) ==
    /\ edges[k] <= v
    /\ \/ v < edges[k + 1]
       \/ k = Len(edges) - 1 /\ v = edges[k + 1]
\* row i lies in the cell, yedges and xedges being the edges of the bins
RowInCell(yedges, xedges, i, cell) ==
    /\ InBin(yedges, cell[1], Scaled(xy.y[i], args.bins[1]))
    /\ InBin(xedges, cell[2], Scaled(xy.x[i], args.bins[2]))
\* row i lies between the first and the last edge on both axes
InBinRange(yedges, xedges, i) ==
    /\ yedges[1] <= Scaled(xy.y[i], args.bins[1])
    /\ Scaled(xy.y[i], args.bins[1]) <= yedges[Len(yedges)]
    /\ xedges[1] <= Scaled(xy.x[i], args.bins[2])
    /\ Scaled(xy.x[i], args.bins[2]) <= xedges[Len(xedges)]
\* the point lies in the extent <<minx, miny, maxx, maxy>>
InsideWorld(pt, w) ==
    /\ w[1] <= pt[1] /\ pt[1] <= w[3]
    /\ w[2] <= pt[2] /\ pt[2] <= w[4]
RowsInsideWorld == {i \in DOMAIN gdf : InsideWorld(gdf[i], world)}
RowsOutsideWorld == DOMAIN gdf \ RowsInsideWorld

\* C1 (as stated): with after_year_only = Y, the chart data and the data of
\* the percentage computation both hold exactly the years >= Y.
C1_YearFilterChartAndStats ==
    (StatsPrinted /\ args.after_year_only # <<>>) =>
        /\ DOMAIN figure.data = {y \in RawYears : y >= args.after_year_only[1]}
        /\ DOMAIN stats_df = {y \in RawYears : y >= args.after_year_only[1]}

\* C1 (amended): with after_year_only = Y, the data of the percentage
\* computation holds exactly the rows of the years >= Y; the chart data holds
\* every year of the aggregated table, also those before Y.
C1_YearFilterStatsOnly ==
    (StatsPrinted /\ args.after_year_only # <<>>) =>
        /\ DOMAIN stats_df = {y \in RawYears : y >= args.after_year_only[1]}
        /\ \A y \in DOMAIN stats_df : stats_df[y] = df_techs[y]
        /\ DOMAIN figure.data = RawYears
        /\ figure.data = df_techs

C1_Witness ==
    /\ StatsPrinted /\ args.after_year_only # <<>>
    /\ \E y \in RawYears : y < args.after_year_only[1]
    /\ \E y \in RawYears : y = args.after_year_only[1]
    /\ \E y \in DOMAIN figure.data : y < args.after_year_only[1]

\* C2: the saved figure has a legend exactly when --no-show-legend is absent.
C2_LegendFollowsFlag ==
    (script = "techniques" /\ saved) => (figure.legend = ~args.no_show_legend)

\* C3 (as stated): without a year filter the three percentages of any
\* aggregated table sum to 100.
C3_PercentagesSumTo100 ==
    (StatsPrinted /\ args.after_year_only = <<>>) => SumsTo100(percents)

\* C3 (amended): without a year filter the three percentages sum to 100 when
\* the grand total of the table is not zero; when it is zero each of the
\* three is NaN.
C3_PercentagesSumTo100NonZero ==
    (StatsPrinted /\ args.after_year_only = <<>>) =>
        IF RawGrandTotal(RawYears) # 0
        THEN SumsTo100(percents)
        ELSE \A c \in TechColumns : IsNaN(percents[c])

C3_Witness ==
    /\ StatsPrinted /\ args.after_year_only = <<>>
    /\ Cardinality(RawYears) = 2
    /\ RawTotal("Image Processing", RawYears) = 1
    /\ RawTotal("Deep Learning", RawYears) = 2
    /\ SumsTo100(percents)

\* C4: format_df returns one row per distinct Year of the input and no other
\* row, and each cell is the sum of its raw column over the input rows of
\* that year.
C4_GroupBySumPerYear ==
    Aggregated =>
        /\ DOMAIN df_techs = RawYears
        /\ \A y \in RawYears : \A c \in TechColumns :
              df_techs[y][c] = RawTotal(c, {y})

C4_Witness ==
    /\ Aggregated
    /\ Len(df) = 2 /\ df[1].Year = df[2].Year
    /\ df[1].Deep_Learning = 1 /\ df[2].Deep_Learning = 1
    /\ df_techs[df[1].Year]["Deep Learning"] = 2
    /\ \E y \in Years : y \notin DOMAIN df_techs

\* C5: each percentage is 100 * (column total over the included years) /
\* (grand total of the three columns over the included years), the included
\* years being all years without a filter and the years >= Y with one; the
\* two-row example gives 25, 25, 50.
C5_GlobalShare ==
    StatsPrinted =>
        /\ \A c \in TechColumns :
              IF RawGrandTotal(IncludedYears) = 0
              THEN IsNaN(percents[c])
              ELSE /\ ~IsNaN(percents[c])
                   /\ percents[c].num * RawGrandTotal(IncludedYears)
                        = 100 * RawTotal(c, IncludedYears) * percents[c].den
        /\ (/\ args.after_year_only = <<>>
            /\ df = <<[Year |-> 2020, Image_Processing |-> 1,
                       Machine_Learning |-> 0, Deep_Learning |-> 1],
                      [Year |-> 2021, Image_Processing |-> 0,
                       Machine_Learning |-> 1, Deep_Learning |-> 1]>>)
           => /\ EqualsNumber(percents["Image Processing"], 25)
              /\ EqualsNumber(percents["Machine Learning"], 25)
              /\ EqualsNumber(percents["Deep Learning"], 50)

C5_Witness ==
    /\ StatsPrinted /\ args.after_year_only = <<>>
    /\ df = <<[Year |-> 2020, Image_Processing |-> 1,
               Machine_Learning |-> 0, Deep_Learning |-> 1],
              [Year |-> 2021, Image_Processing |-> 0,
               Machine_Learning |-> 1, Deep_Learning |-> 1]>>
    /\ EqualsNumber(percents["Deep Learning"], 50)

\* C6: the cells of the raw histogram sum to the number of input rows minus
\* the rows outside the bin range, and each cell counts exactly the rows
\* lying in its bin.
C6_HistogramCountsRows ==
    HistogramBuilt =>
        LET ye == Linspace(OuterEdges(xy.y), args.bins[1])
            xe == Linspace(OuterEdges(xy.x), args.bins[2])
        IN /\ SumCells(heatmap) =
                 Len(gdf) - Cardinality({i \in DOMAIN gdf : ~InBinRange(ye, xe, i)})
           /\ \A cell \in DOMAIN heatmap :
                 heatmap[cell] =
                    Cardinality({i \in DOMAIN gdf : RowInCell(ye, xe, i, cell)})
           /\ \A i \in DOMAIN gdf :
                 IF InBinRange(ye, xe, i)
                 THEN Cardinality({cell \in DOMAIN heatmap :
                                      RowInCell(ye, xe, i, cell)}) = 1
                 ELSE \A cell \in DOMAIN heatmap : ~RowInCell(ye, xe, i, cell)

C6_Witness ==
    /\ HistogramBuilt /\ args.bins = <<2, 2>>
    /\ Len(gdf) = 3 /\ gdf[1] = gdf[2] /\ gdf[3] # gdf[1]
    /\ \E cell \in DOMAIN heatmap : heatmap[cell] = 2
    /\ SumCells(heatmap) = 3

\* C7: in the grid handed to the Gaussian filter every cell of raw count 0 is
\* 0, no cell is negative infinity, and the grid has the raw histogram's shape.
C7_NoNegInfIntoFilter ==
    AtFilter =>
        /\ DOMAIN logheatmap = DOMAIN heatmap
        /\ \A cell \in DOMAIN logheatmap :
              /\ ~isneginf(logheatmap[cell])
              /\ heatmap[cell] = 0 => logheatmap[cell] = Finite(0)

C7_Witness ==
    /\ AtFilter
    /\ \E cell \in DOMAIN heatmap : heatmap[cell] = 0 /\ logheatmap[cell] = Finite(0)
    /\ \E cell \in DOMAIN heatmap : heatmap[cell] > 0

\* C8 (as stated): the histogram counts the points inside the extent of the
\* world map and drops the points outside it.
C8_OutsideWorldDropped ==
    HistogramBuilt => SumCells(heatmap) = Cardinality(RowsInsideWorld)

\* C8 (amended): no point is dropped for lying outside the extent of the world
\* map: every point, inside or outside that extent, is counted in a cell, and
\* the cells sum to the number of points inside plus the number outside.
C8_OutsideWorldCounted ==
    HistogramBuilt =>
        LET ye == Linspace(OuterEdges(xy.y), args.bins[1])
            xe == Linspace(OuterEdges(xy.x), args.bins[2])
        IN /\ SumCells(heatmap) =
                 Cardinality(RowsInsideWorld) + Cardinality(RowsOutsideWorld)
           /\ \A i \in RowsOutsideWorld :
                 \E cell \in DOMAIN heatmap :
                     RowInCell(ye, xe, i, cell) /\ heatmap[cell] >= 1

C8_Witness ==
    /\ HistogramBuilt
    /\ RowsOutsideWorld # {} /\ RowsInsideWorld # {}
    /\ SumCells(heatmap) = Len(gdf)

\* C9 (as stated): on an input without rows the run fails at the histogram2d
\* call and writes no image.
C9_EmptyFailsAtHistogram ==
    (script = "heatmap" /\ pc = "failed" /\ df = <<>>) =>
        (failed_at = "histogram2d" /\ ~saved)

\* C9 (amended): on an input without rows the run fails in generate_heatmap at
\* the unpacking x, y = zip(*coords), before the histogram2d call is reached,
\* and writes no image.
C9_EmptyFailsAtUnpack ==
    (script = "heatmap" /\ df = <<>>
       /\ pc \notin {"parse_args", "read_csv", "pandas_to_geopandas",
                     "get_world_map", "coords"}) =>
        /\ pc = "failed" /\ failed_at = "unpack"
        /\ ~saved /\ heatmap = <<>> /\ xy = <<>>

C9_Witness ==
    /\ script = "heatmap" /\ df = <<>> /\ world # <<>>
    /\ pc = "failed" /\ failed_at = "unpack" /\ ~saved

\* C10: in the grid handed to the Gaussian filter a cell is 0 exactly when its
\* raw count is 0 or 1 and is strictly positive when its raw count is 2 or more.
C10_ZeroIffCountAtMostOne ==
    AtFilter =>
        \A cell \in DOMAIN heatmap :
            /\ (logheatmap[cell] = Finite(0)) <=> (heatmap[cell] \in {0, 1})
            /\ heatmap[cell] >= 2 =>
                  (~isneginf(logheatmap[cell]) /\ logheatmap[cell].milli > 0)

C10_Witness ==
    /\ AtFilter
    /\ \E a, b, c \in DOMAIN heatmap :
          /\ heatmap[a] = 0 /\ heatmap[b] = 1 /\ heatmap[c] = 2
          /\ logheatmap[a] = logheatmap[b]
          /\ logheatmap[c].milli > 0
====
